---- MODULE Spec2Model ----
(***************************************************************************)
(* Build orchestration of the HiGHS cross-platform build scripts:          *)
(*   build_scripts/config.py            ConfigManager                      *)
(*   build_scripts/platform_builders.py the three builder strategies       *)
(*   build_scripts/orchestrator.py      BuildOrchestrator                  *)
(*   build-legacy.py                    the command line (main)            *)
(*   build_scripts/library_extractor.py LibraryExtractor                   *)
(*   build_scripts/cleaner.py           BuildCleaner                       *)
(*   build_scripts/xcframework_builder.py XCFrameworkBuilder               *)
(* The specifications of the module share its variables:                   *)
(*   Spec          a batch run by BuildOrchestrator                        *)
(*   SpecConfig    ConfigManager and the persisted .env record             *)
(*   SpecDispatch  PlatformBuilderFactory.get_builder_for_preset           *)
(*   SpecCli       main() of build-legacy.py                               *)
(*   SpecExtract   LibraryExtractor.extract_libraries, step by step        *)
(*   SpecClean     BuildCleaner.cleanup_all                                *)
(*   SpecCommand   the commands and environment of the builder strategies  *)
(*   SpecIos       build_ios_xcframework on the project directory          *)
(***************************************************************************)
EXTENDS Naturals, Sequences, FiniteSets, TLC

VARIABLES
    \* ---- ConfigManager
    env_file,          \* the .env record: [exists, lines]
    ndk_mem,           \* ConfigManager._android_ndk_path
    cfg_call,          \* the last ConfigManager call: [op, arg, ret]
    presets,           \* the names of the configure presets of CMakePresets.json
    \* ---- PlatformBuilderFactory
    preset_name,       \* the name given to get_builder_for_preset
    builder,           \* what it returned
    \* ---- BuildOrchestrator
    op,                \* the entry point running: "multi", "ios", "android"
    arg,               \* build_multiple_platforms' argument: [none, list]
    extract_libs,      \* BuildOrchestrator.extract_libs
    platforms,         \* the list the batch loop iterates over
    idx,               \* position of the loop in platforms (1-based)
    pc,                \* where the orchestrator is
    results,           \* the results dict, in insertion order: Seq([k, v])
    calls,             \* every collaborator call made so far, in order
    all_success,       \* all(results.values()): "unset" until computed
    ret,               \* what the entry point returned
    build_dirs,        \* the directories that exist under build/
    xcf,               \* the create_xcframework call, once it has been made
    \* ---- main() of build-legacy.py
    args,              \* the parsed command line: [platforms, ndk_path, extract_libs]
    cli_pc,            \* where main is
    exit_code,         \* the process exit code, once it has ended
    activity,          \* configure, build, clean and extract calls made by main
    \* ---- the command a builder strategy runs
    generator,         \* the "generator" of the preset
    build_config,      \* --config of the command line: the build type
    command,           \* the last runner.run: [kind, argv, env, ran, ret]
    \* ---- the project directory LibraryExtractor and BuildCleaner work on
    fs,                \* [files, dirs]: the paths that exist
    fs_call,           \* the last call made on it: [op, arg, ret]
    ex                 \* extract_libraries: where it is and its local variables

cfgVars  == <<env_file, ndk_mem, cfg_call, presets>>
dispVars == <<preset_name, builder>>
orchVars == <<op, arg, extract_libs, platforms, idx, pc, results, calls,
              all_success, ret, build_dirs, xcf>>
cliVars  == <<args, cli_pc, exit_code, activity>>
cmdVars  == <<generator, build_config, command>>
fsVars   == <<fs, fs_call, ex>>
vars     == <<cfgVars, dispVars, orchVars, cliVars, cmdVars, fsVars>>

\* what the actions of each specification leave alone
outsideOrch     == <<cfgVars, dispVars, cliVars, cmdVars, fsVars>>
outsideConfig   == <<dispVars, orchVars, cliVars, cmdVars, fsVars>>
outsideDispatch == <<cfgVars, orchVars, cliVars, cmdVars, fsVars>>
outsideCli      == <<dispVars, orchVars, cmdVars, fsVars>>

(***************************************************************************)
(* Bounds of the model.                                                    *)
(***************************************************************************)
MaxBatch    == 3     \* longest explicit platform list
MaxEnvLines == 2     \* longest initial .env record
MaxArgs     == 2     \* longest command-line platform list
MaxFiles    == 3     \* most entries of a build directory before the extraction
MaxRuns     == 2     \* most runs of cleanup_all in a row

(***************************************************************************)
(* Python values.                                                          *)
(***************************************************************************)
None == "<None>"
Truthy(s) == s # None /\ s # ""

Range(s) == {s[i] : i \in 1..Len(s)}

RECURSIVE SeqsUpTo(_, _)
SeqsUpTo(S, n) ==
    IF n = 0 THEN {<<>>}
    ELSE LET shorter == SeqsUpTo(S, n - 1)
         IN  shorter \cup {Append(s, x) : s \in {t \in shorter : Len(t) = n - 1}, x \in S}

\* str.startswith(prefix)
StartsWith(s, prefix) ==
    Len(s) >= Len(prefix) /\ SubSeq(s, 1, Len(prefix)) = prefix

\* str.startswith(tuple of prefixes)
StartsWithAny(s, prefixes) == \E p \in prefixes : StartsWith(s, p)

\* mutant of All: any() in place of all()
AnySuccess(d) == \E i \in 1..Len(d) : d[i].v

\* all(d.values()) of a results dict
All(d) == \A i \in 1..Len(d) : d[i].v

Keys(d) == [i \in 1..Len(d) |-> d[i].k]

\* d[k] = v of a Python dict: an existing key keeps its position
DictSet(d, k, v) ==
    IF \E i \in 1..Len(d) : d[i].k = k
    THEN [i \in 1..Len(d) |-> IF d[i].k = k THEN [k |-> k, v |-> v] ELSE d[i]]
    ELSE Append(d, [k |-> k, v |-> v])

(***************************************************************************)
(* Strings: the str methods config.py uses on a line of the .env record.   *)
(***************************************************************************)
RECURSIVE LStrip(_, _)
LStrip(s, chars) ==
    IF Len(s) > 0 /\ SubSeq(s, 1, 1) \in chars
    THEN LStrip(SubSeq(s, 2, Len(s)), chars)
    ELSE s

RECURSIVE RStrip(_, _)
RStrip(s, chars) ==
    IF Len(s) > 0 /\ SubSeq(s, Len(s), Len(s)) \in chars
    THEN RStrip(SubSeq(s, 1, Len(s) - 1), chars)
    ELSE s

Whitespace == {" "}
Quotes == {"\"", "'"}

\* str.strip() and str.strip('"\'')
Strip(s) == RStrip(LStrip(s, Whitespace), Whitespace)
StripQuotes(s) == RStrip(LStrip(s, Quotes), Quotes)

\* '=' in line
HasEq(s) == \E i \in 1..Len(s) : SubSeq(s, i, i) = "="

\* position of the first '=' of a line that has one
FirstEq(s) == CHOOSE i \in 1..Len(s) :
                  /\ SubSeq(s, i, i) = "="
                  /\ \A j \in 1..(i - 1) : SubSeq(s, j, j) # "="

\* line.split('=', 1)
SplitKey(s) == SubSeq(s, 1, FirstEq(s) - 1)
SplitValue(s) == SubSeq(s, FirstEq(s) + 1, Len(s))

(***************************************************************************)
(* The filesystem ConfigManager looks at.  It does not change while the    *)
(* program runs: "/opt/ndk" and "/opt/ndk2" are NDK installations,         *)
(* "ndk-link" is a relative link to the first, "/opt/empty" is a directory *)
(* without the toolchain file and "/missing" does not exist.               *)
(***************************************************************************)
NdkPaths == {"/opt/ndk", "/opt/ndk2", "ndk-link", "/opt/empty", "/missing"}

\* Path(p).exists()
PathExists(p) == p \in {"/opt/ndk", "/opt/ndk2", "ndk-link", "/opt/empty"}

\* (Path(p) / "build" / "cmake" / "android.toolchain.cmake").exists()
HasToolchainFile(p) == p \in {"/opt/ndk", "/opt/ndk2", "ndk-link"}

\* str(Path(p).resolve())
Resolve(p) == IF p = "ndk-link" THEN "/opt/ndk" ELSE p

NoEnvFile == [exists |-> FALSE, lines |-> <<>>]

EnvLinePool == {
    "ANDROID_NDK_PATH=\"/opt/ndk\"",
    "ANDROID_NDK_PATH=/opt/empty",
    "ANDROID_NDK_PATH='/missing'",
    "ANDROID_NDK_PATH=",
    "FOO=bar",
    "FOO='a=b'",
    "# A=b",
    " BAR = \"x\" " }

EnvFiles == {NoEnvFile} \cup
            {[exists |-> TRUE, lines |-> l] : l \in SeqsUpTo(EnvLinePool, MaxEnvLines)}

(***************************************************************************)
(* ConfigManager                                                           *)
(***************************************************************************)
RECURSIVE LoadFromLines(_, _)
LoadFromLines(lines, i) ==
    IF i > Len(lines) THEN None
    ELSE LET line == Strip(lines[i])
         IN  IF StartsWith(line, "ANDROID_NDK_PATH=")
             THEN LET ndk_path == StripQuotes(SplitValue(line))
                  IN  IF ndk_path # "" /\ PathExists(ndk_path)
                      THEN ndk_path
                      ELSE LoadFromLines(lines, i + 1)
             ELSE LoadFromLines(lines, i + 1)

\* ConfigManager._load_android_ndk_path
load_android_ndk_path(file) ==
    IF file.exists THEN LoadFromLines(file.lines, 1) ELSE None

\* the env_vars dict _save_android_ndk_path reads from the lines of the file
RECURSIVE ReadEnvVars(_, _, _)
ReadEnvVars(lines, i, env_vars) ==
    IF i > Len(lines) THEN env_vars
    ELSE LET line == Strip(lines[i])
         IN  IF HasEq(line) /\ ~StartsWith(line, "#")
             THEN ReadEnvVars(lines, i + 1,
                      DictSet(env_vars, Strip(SplitKey(line)), StripQuotes(SplitValue(line))))
             ELSE ReadEnvVars(lines, i + 1, env_vars)

\* mutant of save_android_ndk_path: only the NDK path is written
save_only_ndk_path(file, ndk_path) ==
    [exists |-> TRUE,
     lines  |-> <<"# HiGHS Build Configuration",
                  "# Android NDK path for cross-compilation",
                  "ANDROID_NDK_PATH=\"" \o ndk_path \o "\"">>]

\* ConfigManager._save_android_ndk_path: the file it writes
save_android_ndk_path(file, ndk_path) ==
    LET old == IF file.exists THEN ReadEnvVars(file.lines, 1, <<>>) ELSE <<>>
        env_vars == DictSet(old, "ANDROID_NDK_PATH", ndk_path)
    IN  [exists |-> TRUE,
         lines  |-> <<"# HiGHS Build Configuration",
                      "# Android NDK path for cross-compilation">>
                    \o [i \in 1..Len(env_vars) |->
                           env_vars[i].k \o "=\"" \o env_vars[i].v \o "\""]]

\* the ConfigManager.android_ndk_path property: the value it reports
android_ndk_path ==
    IF ndk_mem = None THEN load_android_ndk_path(env_file) ELSE ndk_mem

\* reading the property caches what was loaded
GetAndroidNdkPath ==
    /\ ndk_mem' = android_ndk_path
    /\ cfg_call' = [op |-> "get", arg |-> None, ret |-> android_ndk_path]
    /\ UNCHANGED <<env_file, presets>>

\* mutant of RejectsNdkPath: the toolchain file is not looked for
RejectsMissingOnly(ndk_path) == ~PathExists(ndk_path)

\* the checks of set_android_ndk_path that reject a path
RejectsNdkPath(ndk_path) ==
    \/ ~PathExists(ndk_path)
    \/ ~HasToolchainFile(ndk_path)

\* ConfigManager.set_android_ndk_path
set_android_ndk_path(ndk_path) ==
    IF RejectsNdkPath(ndk_path)
    THEN /\ cfg_call' = [op |-> "set", arg |-> ndk_path, ret |-> "False"]
         /\ UNCHANGED <<ndk_mem, env_file>>
    ELSE /\ ndk_mem' = Resolve(ndk_path)
         /\ env_file' = save_android_ndk_path(env_file, Resolve(ndk_path))
         /\ cfg_call' = [op |-> "set", arg |-> ndk_path, ret |-> "True"]

SetAndroidNdkPath ==
    /\ \E p \in NdkPaths : set_android_ndk_path(p)
    /\ UNCHANGED presets


(***************************************************************************)
(* PlatformBuilderFactory and the can_handle of the three strategies       *)
(***************************************************************************)
\* PlatformBuilderFactory.create_builders: the strategies, in list order
Builders == <<"Standard", "Android", "iOS">>

\* mutant of StandardCanHandle: the 'ios-' prefix is left out of the tuple
StandardCanHandleNotAndroid(name) == ~StartsWith(name, "android-")

StandardCanHandle(name) == ~StartsWithAny(name, {"android-", "ios-"})

AndroidCanHandle(name) == StartsWith(name, "android-")

IosCanHandle(name) == StartsWith(name, "ios-")

can_handle(b, name) ==
    CASE b = "Standard" -> StandardCanHandle(name)
      [] b = "Android"  -> AndroidCanHandle(name)
      [] b = "iOS"      -> IosCanHandle(name)

\* PlatformBuilderFactory.get_builder_for_preset: the first strategy of the
\* list whose can_handle accepts the name, None when there is none
get_builder_for_preset(builders, name) ==
    IF \E i \in 1..Len(builders) : can_handle(builders[i], name)
    THEN builders[CHOOSE i \in 1..Len(builders) :
                      /\ can_handle(builders[i], name)
                      /\ \A j \in 1..(i - 1) : ~can_handle(builders[j], name)]
    ELSE None

Prefixes(s) == {SubSeq(s, 1, n) : n \in 0..Len(s)}

\* the names the dispatch is tried on: every prefix of the two family
\* prefixes, other spellings of them and desktop names, each followed by a tail
DispatchNames ==
    {p \o t : p \in Prefixes("android-") \cup Prefixes("ios-")
                    \cup {"Android-", "IOS-", "linux-", "macos", "xandroid-", " ios-"},
              t \in {"", "x", "arm64", "-", "ios-", "android-"}}

GetBuilderForPreset ==
    /\ builder = "unset"
    /\ builder' = get_builder_for_preset(Builders, preset_name)
    /\ UNCHANGED <<preset_name, outsideDispatch>>

(***************************************************************************)
(* The builder strategies: configure and build.  An external command ends  *)
(* in one of three ways: it exits 0, it exits nonzero (subprocess raises   *)
(* CalledProcessError) or its binary is not found (FileNotFoundError).     *)
(***************************************************************************)
RunOutcomes == {"ok", "nonzero", "notfound"}

\* try: runner.run(...); return True / except CalledProcessError: return False
\* (CommandRunner.run re-raises CalledProcessError; nothing catches
\* FileNotFoundError)
RunAndCatch(outcome) ==
    CASE outcome = "ok"       -> "True"
      [] outcome = "nonzero"  -> "False"
      [] outcome = "notfound" -> "raise"

StandardConfigure(outcome) == [ret |-> RunAndCatch(outcome), ran |-> TRUE]

StandardBuild(outcome) == [ret |-> RunAndCatch(outcome), ran |-> TRUE]

AndroidConfigure(outcome) ==
    IF ~Truthy(android_ndk_path)
    THEN [ret |-> "False", ran |-> FALSE]
    ELSE [ret |-> RunAndCatch(outcome), ran |-> TRUE]

AndroidBuild(outcome) ==
    IF ~Truthy(android_ndk_path)
    THEN [ret |-> "False", ran |-> FALSE]
    ELSE [ret |-> RunAndCatch(outcome), ran |-> TRUE]

IosConfigure(outcome) == [ret |-> RunAndCatch(outcome), ran |-> TRUE]

IosBuild(outcome) == [ret |-> RunAndCatch(outcome), ran |-> TRUE]

configure(b, outcome) ==
    CASE b = "Standard" -> StandardConfigure(outcome)
      [] b = "Android"  -> AndroidConfigure(outcome)
      [] b = "iOS"      -> IosConfigure(outcome)

build(b, outcome) ==
    CASE b = "Standard" -> StandardBuild(outcome)
      [] b = "Android"  -> AndroidBuild(outcome)
      [] b = "iOS"      -> IosBuild(outcome)


(***************************************************************************)
(* BuildOrchestrator                                                       *)
(***************************************************************************)
\* the preset names of CMakePresets.json, in file order
Presets == <<"linux-x64", "macos-arm64", "android-arm64", "ios-arm64">>

\* the CMakePresets.json files the command line is run with: the one above
\* and one that has presets for the mobile platforms only
PresetFiles == {Presets, <<"android-arm64", "ios-arm64">>}

\* ConfigManager.get_available_platforms
get_available_platforms == presets

\* the names explicit platform lists are drawn from: one per strategy
BatchNames == {"linux-x64", "android-arm64", "ios-arm64"}

IosPlatforms == <<"ios-arm64", "ios-simulator-arm64">>
AndroidPlatforms == <<"android-arm64", "android-arm32", "android-x86", "android-x64">>

IsAndroid(p) == StartsWith(p, "android-")
NotAndroid(p) == ~StartsWith(p, "android-")

\* mutant of filter_available_platforms: nothing is filtered out
filter_keeps_all(ps) == ps

\* BuildOrchestrator._filter_available_platforms
filter_available_platforms(ps) ==
    IF ~Truthy(android_ndk_path)
    THEN IF SelectSeq(ps, IsAndroid) # <<>> THEN SelectSeq(ps, NotAndroid) ELSE ps
    ELSE ps

\* mutant of clean_platforms: nothing is removed
clean_platforms_keeps(dirs, ps) == dirs

\* BuildCleaner.clean_platforms: build/<platform> is removed when it exists
clean_platforms(dirs, ps) == dirs \ Range(ps)

\* the directories under build/ a batch may find from earlier runs
InitBuildDirs == {{}, {"linux-x64", "ios-arm64", "android-x86"}}

\* platform.system()
Systems == {"Darwin", "Linux"}

\* project_dir / "build" / ios_platform / build_config / "lib" / "libhighs.a"
LibraryPath(ios_platform) ==
    "build/" \o ios_platform \o "/" \o build_config \o "/lib/libhighs.a"

\* mutant of MissingLibs: the search stops at the first missing path
MissingLibsFirstOnly(library_paths, existing) ==
    LET Missing(path) == path \notin existing
    IN  SubSeq(SelectSeq(library_paths, Missing), 1, 1)

\* missing_libs = [path for path in library_paths if not path.exists()]
MissingLibs(library_paths, existing) ==
    LET Missing(path) == path \notin existing
    IN  SelectSeq(library_paths, Missing)

NoXcf == [called |-> FALSE, system |-> "", existing |-> {}, outcome |-> "", mkdir |-> FALSE,
          reported |-> <<>>, invoked |-> FALSE, logged |-> "", ret |-> "unset"]

\* XCFrameworkBuilder.create_xcframework on a machine of the given system,
\* with the given library files in place and xcodebuild ending as outcome:
\* what it reports as missing, whether it runs xcodebuild, the message it
\* logs last and what it returns
create_xcframework(ios_platforms, system, existing, outcome) ==
    LET library_paths == [i \in 1..Len(ios_platforms) |-> LibraryPath(ios_platforms[i])]
        missing_libs == MissingLibs(library_paths, existing)
        call == [called |-> TRUE, system |-> system, existing |-> existing,
                 outcome |-> outcome]
    IN  IF system # "Darwin"
        THEN call @@ [mkdir |-> FALSE, reported |-> <<>>, invoked |-> FALSE,
                      logged |-> "XCFramework creation requires macOS", ret |-> "False"]
        ELSE IF missing_libs # <<>>
        THEN call @@ [mkdir |-> TRUE, reported |-> missing_libs, invoked |-> FALSE,
                      logged |-> "Missing library files:", ret |-> "False"]
        ELSE call @@ [mkdir |-> TRUE, reported |-> <<>>, invoked |-> TRUE,
                      logged |-> CASE outcome = "ok" -> "XCFramework saved to:"
                                   [] outcome = "nonzero" -> "Failed to create XCFramework"
                                   [] outcome = "notfound" ->
                                        "xcodebuild not found. Make sure Xcode is installed.",
                      ret |-> IF outcome = "ok" THEN "True" ELSE "False"]

\* BuildCleaner.clean_platforms, as the calls it makes
CleanCalls(ps) == [i \in 1..Len(ps) |->
                      [call |-> "clean", platform |-> ps[i], at |-> 0,
                       ret |-> "None", ran |-> FALSE]]

\* build_multiple_platforms up to its loop: an empty list returns {} at once
EnterBatch(ps) ==
    /\ platforms' = ps
    /\ results' = <<>>
    /\ idx' = 1
    /\ pc' = IF ps = <<>> THEN "empty" ELSE "configure"

\* mutant of Finish: a failed platform gets no entry in results
FinishSkipFailed(success) ==
    /\ results' = IF success THEN DictSet(results, platforms[idx], success) ELSE results
    /\ idx' = idx + 1
    /\ pc' = IF idx = Len(platforms) THEN "summary" ELSE "configure"

\* results[platform] = success, and on to the next platform of the list
Finish(success) ==
    /\ results' = DictSet(results, platforms[idx], success)
    /\ idx' = idx + 1
    /\ pc' = IF idx = Len(platforms) THEN "summary" ELSE "configure"

\* an exception nothing catches leaves the entry point
Crash ==
    /\ pc' = "crashed"
    /\ ret' = "raised"
    /\ UNCHANGED <<results, idx>>

\* mutant of StepFailed: the return value of the step is ignored
StepFailedNever(r) == FALSE

\* "if not builder.configure(platform): return False", and the same for build
StepFailed(r) == r # "True"

\* build_multiple_platforms(platforms) called directly
StartMultiple ==
    /\ pc = "entry"
    /\ op = "multi"
    /\ EnterBatch(IF arg.none
                  THEN filter_available_platforms(get_available_platforms)
                  ELSE arg.list)
    /\ UNCHANGED <<op, arg, extract_libs, calls, all_success, ret, build_dirs, xcf>>
    /\ UNCHANGED outsideOrch

\* build_ios_xcframework up to the loop
StartIos ==
    /\ pc = "entry"
    /\ op = "ios"
    /\ calls' = calls \o CleanCalls(IosPlatforms)
    /\ build_dirs' = clean_platforms(build_dirs, IosPlatforms)
    /\ EnterBatch(IosPlatforms)
    /\ UNCHANGED <<op, arg, extract_libs, all_success, ret, xcf>>
    /\ UNCHANGED outsideOrch

\* build_android_all up to the loop
StartAndroid ==
    /\ pc = "entry"
    /\ op = "android"
    /\ IF ~Truthy(android_ndk_path)
       THEN /\ ret' = "False"
            /\ pc' = "returned"
            /\ UNCHANGED <<platforms, results, idx, calls, build_dirs>>
       ELSE /\ calls' = calls \o CleanCalls(AndroidPlatforms)
            /\ build_dirs' = clean_platforms(build_dirs, AndroidPlatforms)
            /\ EnterBatch(AndroidPlatforms)
            /\ UNCHANGED ret
    /\ UNCHANGED <<op, arg, extract_libs, all_success, xcf>>
    /\ UNCHANGED outsideOrch

\* build_single_platform: the builder lookup and builder.configure
Configure ==
    /\ pc = "configure"
    /\ \E outcome \in RunOutcomes :
         LET platform == platforms[idx]
             b == get_builder_for_preset(Builders, platform)
         IN  IF b = None
             THEN /\ Finish(FALSE)
                  /\ UNCHANGED <<calls, ret, build_dirs>>
             ELSE LET r == configure(b, outcome)
                  IN  /\ calls' = Append(calls,
                             [call |-> "configure", platform |-> platform,
                              at |-> idx, ret |-> r.ret, ran |-> r.ran])
                      /\ build_dirs' = IF r.ret = "True"
                                       THEN build_dirs \cup {platform}
                                       ELSE build_dirs
                      /\ IF r.ret = "raise" THEN Crash
                         ELSE IF StepFailed(r.ret)
                         THEN /\ Finish(FALSE)
                              /\ UNCHANGED ret
                         ELSE /\ pc' = "build"
                              /\ UNCHANGED <<results, idx, ret>>
    /\ UNCHANGED <<op, arg, extract_libs, platforms, all_success, xcf>>
    /\ UNCHANGED outsideOrch

\* build_single_platform: builder.build, then the extract_libs test
BuildStep ==
    /\ pc = "build"
    /\ \E outcome \in RunOutcomes :
         LET platform == platforms[idx]
             r == build(get_builder_for_preset(Builders, platform), outcome)
         IN  /\ calls' = Append(calls,
                    [call |-> "build", platform |-> platform,
                     at |-> idx, ret |-> r.ret, ran |-> r.ran])
             /\ IF r.ret = "raise" THEN Crash
                ELSE IF StepFailed(r.ret)
                THEN /\ Finish(FALSE)
                     /\ UNCHANGED ret
                ELSE IF extract_libs
                THEN /\ pc' = "extract"
                     /\ UNCHANGED <<results, idx, ret>>
                ELSE /\ Finish(TRUE)
                     /\ UNCHANGED ret
    /\ UNCHANGED <<op, arg, extract_libs, platforms, all_success, build_dirs, xcf>>

\* the step above when the project directory is not looked at
Build == BuildStep /\ UNCHANGED outsideOrch

\* mutant of AfterExtract: the result of the extraction is returned
AfterExtractPropagates(extracted) == extracted

\* what build_single_platform returns once extract_libraries has returned
AfterExtract(extracted) == TRUE

\* build_single_platform: what follows once extract_libraries has returned
ExtractStep(extracted) ==
    /\ pc = "extract"
    /\ calls' = Append(calls,
           [call |-> "extract", platform |-> platforms[idx], at |-> idx,
            ret |-> IF extracted THEN "True" ELSE "False", ran |-> FALSE])
    /\ Finish(AfterExtract(extracted))
    /\ UNCHANGED <<op, arg, extract_libs, platforms, all_success, ret, build_dirs, xcf>>

\* build_single_platform: library_extractor.extract_libraries and the return
Extract ==
    /\ \E extracted \in BOOLEAN : ExtractStep(extracted)
    /\ UNCHANGED outsideOrch

\* build_multiple_platforms returns: {} for an empty list, else the summary
\* and the results
ReturnMultiple ==
    /\ pc \in {"summary", "empty"}
    /\ op = "multi"
    /\ ret' = "results"
    /\ pc' = "returned"
    /\ UNCHANGED <<op, arg, extract_libs, platforms, idx, results, calls, all_success,
                   build_dirs, xcf>>
    /\ UNCHANGED outsideOrch

\* build_ios_xcframework after the loop: all(), then create_xcframework on
\* a project directory in which one of the given sets of library files exists
FinishIosStep(library_sets) ==
    /\ pc \in {"summary", "empty"}
    /\ op = "ios"
    /\ all_success' = IF All(results) THEN "True" ELSE "False"
    /\ IF ~All(results)
       THEN /\ ret' = "False"
            /\ UNCHANGED <<calls, build_dirs, xcf>>
       ELSE \E system \in Systems, outcome \in RunOutcomes, existing \in library_sets :
              LET r == create_xcframework(IosPlatforms, system, existing, outcome)
              IN  /\ xcf' = r
                  /\ ret' = r.ret
                  /\ build_dirs' = IF r.mkdir THEN build_dirs \cup {"ios-xcframework"}
                                   ELSE build_dirs
                  /\ calls' = Append(calls,
                         [call |-> "create_xcframework", platform |-> "ios", at |-> 0,
                          ret |-> r.ret, ran |-> r.invoked])
    /\ pc' = "returned"
    /\ UNCHANGED <<op, arg, extract_libs, platforms, idx, results>>

\* the step above with any of the libraries of the configured iOS platforms
\* in place
FinishIos ==
    /\ FinishIosStep(SUBSET {LibraryPath(p) : p \in build_dirs \cap Range(IosPlatforms)})
    /\ UNCHANGED outsideOrch

\* build_android_all after the loop
FinishAndroid ==
    /\ pc \in {"summary", "empty"}
    /\ op = "android"
    /\ all_success' = IF All(results) THEN "True" ELSE "False"
    /\ ret' = IF All(results) THEN "True" ELSE "False"
    /\ pc' = "returned"
    /\ UNCHANGED <<op, arg, extract_libs, platforms, idx, results, calls, build_dirs, xcf>>
    /\ UNCHANGED outsideOrch

(***************************************************************************)
(* Initial states and specifications                                       *)
(***************************************************************************)
NoCall == [op |-> "none", arg |-> None, ret |-> None]
NoArg  == [none |-> TRUE, list |-> <<>>]
NoArgs == [platforms |-> <<>>, ndk_path |-> None, extract_libs |-> FALSE]
NoFs   == [files |-> {}, dirs |-> {}]
NoCommand == [kind |-> "none", argv |-> <<>>, env |-> <<>>, ran |-> FALSE, ret |-> None]
NoEx   == [pc |-> "idle", platform |-> "", build_dir |-> <<>>, lib_files |-> <<>>,
           temp_libs |-> <<>>, moved |-> 0]

CfgIdle  == /\ env_file = NoEnvFile /\ ndk_mem = None /\ cfg_call = NoCall
            /\ presets = Presets
DispIdle == preset_name = "" /\ builder = "unset"
OrchIdle == /\ op = "none" /\ arg = NoArg /\ extract_libs = FALSE
            /\ platforms = <<>> /\ idx = 0 /\ pc = "idle" /\ results = <<>>
            /\ calls = <<>> /\ all_success = "unset" /\ ret = "unset"
            /\ build_dirs = {} /\ xcf = NoXcf
CliIdle  == args = NoArgs /\ cli_pc = "idle" /\ exit_code = <<>> /\ activity = <<>>
CmdIdle  == generator = "" /\ build_config = "Release" /\ command = NoCommand
FsIdle   == fs = NoFs /\ fs_call = NoCall /\ ex = NoEx

\* the .env records a batch starts from: none, or one naming an NDK
OrchEnvFiles == {NoEnvFile,
                 [exists |-> TRUE, lines |-> <<"ANDROID_NDK_PATH=\"/opt/ndk\"">>]}

Init ==
    /\ env_file \in OrchEnvFiles /\ ndk_mem = None /\ cfg_call = NoCall
    /\ presets = Presets
    /\ DispIdle
    /\ CliIdle
    /\ CmdIdle
    /\ FsIdle
    /\ op \in {"multi", "ios", "android"}
    /\ arg \in {NoArg} \cup
               {[none |-> FALSE, list |-> l] : l \in SeqsUpTo(BatchNames, MaxBatch)}
    /\ (op # "multi" => arg = NoArg)
    /\ extract_libs \in BOOLEAN
    /\ platforms = <<>> /\ idx = 0 /\ pc = "entry" /\ results = <<>>
    /\ calls = <<>> /\ all_success = "unset" /\ ret = "unset"
    /\ build_dirs \in InitBuildDirs /\ xcf = NoXcf

Next ==
    \/ StartMultiple
    \/ StartIos
    \/ StartAndroid
    \/ Configure
    \/ Build
    \/ Extract
    \/ ReturnMultiple
    \/ FinishIos
    \/ FinishAndroid

Spec == Init /\ [][Next]_vars

InitConfig ==
    /\ env_file \in EnvFiles /\ ndk_mem = None /\ cfg_call = NoCall
    /\ presets = Presets
    /\ DispIdle
    /\ OrchIdle
    /\ CliIdle
    /\ CmdIdle
    /\ FsIdle

NextConfig ==
    \/ SetAndroidNdkPath /\ UNCHANGED outsideConfig
    \/ GetAndroidNdkPath /\ UNCHANGED outsideConfig

SpecConfig == InitConfig /\ [][NextConfig]_vars

InitDispatch ==
    /\ CfgIdle
    /\ preset_name \in DispatchNames /\ builder = "unset"
    /\ OrchIdle
    /\ CliIdle
    /\ CmdIdle
    /\ FsIdle

NextDispatch == GetBuilderForPreset

SpecDispatch == InitDispatch /\ [][NextDispatch]_vars


(***************************************************************************)
(* build-legacy.py: BuildSystem and main().  BuildSystem carries its own   *)
(* copies of the .env load and save and of set_android_ndk_path, line for  *)
(* line those of ConfigManager, which stand for them here.                 *)
(***************************************************************************)
\* how the build of one platform goes, as far as build_single gets
SingleOutcomes == {"configure_nonzero", "configure_notfound", "build_nonzero",
                   "build_notfound", "extract_failed", "ok"}

Act(call, platform, r) == [call |-> call, platform |-> platform, ret |-> r]

\* BuildSystem.configure_preset, with configure_android_preset
LegacyConfigure(p, o) ==
    IF IsAndroid(p) /\ ~Truthy(ndk_mem)
    THEN "False"
    ELSE RunAndCatch(CASE o = "configure_nonzero"  -> "nonzero"
                       [] o = "configure_notfound" -> "notfound"
                       [] OTHER                    -> "ok")

\* BuildSystem.build_preset, with build_android_preset
LegacyBuild(p, o) ==
    IF IsAndroid(p) /\ ~Truthy(ndk_mem)
    THEN "False"
    ELSE RunAndCatch(CASE o = "build_nonzero"  -> "nonzero"
                       [] o = "build_notfound" -> "notfound"
                       [] OTHER                -> "ok")

\* BuildSystem.build_single: [success, raised, act]
LegacyBuildSingle(p, o) ==
    LET c == LegacyConfigure(p, o)
        b == LegacyBuild(p, o)
        configured == <<Act("configure", p, c)>>
        built == Append(configured, Act("build", p, b))
        extracted == IF o = "extract_failed" THEN "False" ELSE "True"
    IN  IF c # "True"
        THEN [success |-> FALSE, raised |-> c = "raise", act |-> configured]
        ELSE IF b # "True"
        THEN [success |-> FALSE, raised |-> b = "raise", act |-> built]
        ELSE [success |-> TRUE, raised |-> FALSE,
              act |-> IF args.extract_libs
                      THEN Append(built, Act("extract", p, extracted))
                      ELSE built]

\* the loop of BuildSystem.build_all: [results, raised, act]
RECURSIVE LegacyLoop(_, _, _, _, _)
LegacyLoop(ps, outs, i, res, act) ==
    IF i > Len(ps) THEN [results |-> res, raised |-> FALSE, act |-> act]
    ELSE LET s == LegacyBuildSingle(ps[i], outs[i])
         IN  IF s.raised
             THEN [results |-> res, raised |-> TRUE, act |-> act \o s.act]
             ELSE LegacyLoop(ps, outs, i + 1, DictSet(res, ps[i], s.success),
                             act \o s.act)

NotIos(p) == ~StartsWith(p, "ios-")

\* BuildSystem.build_all(None): the platforms it keeps
LegacyAllPlatforms ==
    LET no_android == IF ~Truthy(ndk_mem)
                      THEN SelectSeq(get_available_platforms, NotAndroid)
                      ELSE get_available_platforms
    IN  SelectSeq(no_android, NotIos)

IsMacro(t) == t \in {"all", "ios", "android"}

\* mutant of MixesMacro: the length of the list is not looked at
MixesMacroNever(ps) == FALSE

\* "if len(platforms) > 1" under each of the three macro tokens
MixesMacro(ps) == Len(ps) > 1

NotAvailable(p) == p \notin Range(get_available_platforms)

\* mutant of InvalidPlatforms: only the first name is validated
InvalidFirstOnly(ps) == SelectSeq(SubSeq(ps, 1, 1), NotAvailable)

\* invalid = [p for p in platforms if p not in available]
InvalidPlatforms(ps) == SelectSeq(ps, NotAvailable)

\* main(), the build command up to the call that builds: what it decides to
\* run, or "reject" for sys.exit(1)
MainPlan ==
    LET ps == IF args.platforms = <<>> THEN <<"all">> ELSE args.platforms
        reject == [kind |-> "reject", list |-> <<>>]
    IN  IF "all" \in Range(ps)
        THEN IF MixesMacro(ps) THEN reject
             ELSE [kind |-> "all", list |-> LegacyAllPlatforms]
        ELSE IF "ios" \in Range(ps)
        THEN IF MixesMacro(ps) THEN reject
             ELSE [kind |-> "ios", list |-> IosPlatforms]
        ELSE IF "android" \in Range(ps)
        THEN IF MixesMacro(ps) THEN reject
             ELSE IF ~Truthy(args.ndk_path) THEN reject
             ELSE [kind |-> "list", list |-> AndroidPlatforms]
        ELSE IF SelectSeq(ps, IsAndroid) # <<>> /\ ~Truthy(args.ndk_path) THEN reject
             ELSE IF InvalidPlatforms(ps) # <<>> THEN reject
             ELSE [kind |-> "list", list |-> ps]

\* BuildSystem.__init__: the .env record is loaded when main creates it
MainInit ==
    /\ cli_pc = "start"
    /\ ndk_mem' = load_android_ndk_path(env_file)
    /\ cli_pc' = "created"
    /\ UNCHANGED <<env_file, cfg_call, presets, args, exit_code, activity>>
    /\ UNCHANGED outsideCli

\* main(): "if args.ndk_path: if not set_android_ndk_path(...): sys.exit(1)"
MainSetNdk ==
    /\ cli_pc = "created"
    /\ IF Truthy(args.ndk_path)
       THEN /\ set_android_ndk_path(args.ndk_path)
            /\ UNCHANGED presets
            /\ IF RejectsNdkPath(args.ndk_path)
               THEN cli_pc' = "exited" /\ exit_code' = <<1>>
               ELSE cli_pc' = "command" /\ UNCHANGED exit_code
       ELSE /\ cli_pc' = "command"
            /\ UNCHANGED <<cfgVars, exit_code>>
    /\ UNCHANGED <<args, activity>>
    /\ UNCHANGED outsideCli

\* mutant of ExitCode: a failed platform does not change the exit code
ExitCodeIgnoresFailure(raised, ok) == IF raised THEN <<1>> ELSE <<0>>

\* "if not all(results.values()): sys.exit(1)" (and "if not build_ios()");
\* an exception nothing catches ends the interpreter with code 1, and
\* falling off the end of main ends it with code 0
ExitCode(raised, ok) == IF raised \/ ~ok THEN <<1>> ELSE <<0>>

\* main(): the build command, to the end of the process
MainBuild ==
    /\ cli_pc = "command"
    /\ LET plan == MainPlan
       IN  IF plan.kind = "reject"
           THEN /\ exit_code' = <<1>>
                /\ UNCHANGED activity
           ELSE \E outs \in [1..Len(plan.list) -> SingleOutcomes], created \in BOOLEAN :
                  LET cleaned == IF plan.kind = "ios"
                                 THEN [i \in 1..Len(plan.list) |->
                                          Act("clean", plan.list[i], "None")]
                                 ELSE <<>>
                      run == IF plan.list = <<>>
                             THEN [results |-> <<>>, raised |-> FALSE, act |-> <<>>]
                             ELSE LegacyLoop(plan.list, outs, 1, <<>>, <<>>)
                      ok == IF plan.kind = "ios" THEN All(run.results) /\ created
                            ELSE All(run.results)
                      assembled == IF plan.kind = "ios" /\ ~run.raised /\ All(run.results)
                                   THEN <<Act("create_xcframework", "ios",
                                              IF created THEN "True" ELSE "False")>>
                                   ELSE <<>>
                  IN  /\ activity' = activity \o cleaned \o run.act \o assembled
                      /\ exit_code' = ExitCode(run.raised, ok)
    /\ cli_pc' = "exited"
    /\ UNCHANGED args
    /\ UNCHANGED <<cfgVars, outsideCli>>

\* the platform arguments and --ndk-path values main is run with
CliTokens == {"all", "ios", "android", "linux-x64", "android-arm64", "ios-arm64", "bogus"}
CliNdkPaths == {None, "/opt/ndk", "/opt/empty"}

InitCli ==
    /\ env_file \in OrchEnvFiles /\ ndk_mem = None /\ cfg_call = NoCall
    /\ presets \in PresetFiles
    /\ DispIdle
    /\ OrchIdle
    /\ CmdIdle
    /\ FsIdle
    /\ args \in [platforms : SeqsUpTo(CliTokens, MaxArgs),
                 ndk_path : CliNdkPaths,
                 extract_libs : BOOLEAN]
    /\ cli_pc = "start" /\ exit_code = <<>> /\ activity = <<>>

NextCli ==
    \/ MainInit
    \/ MainSetNdk
    \/ MainBuild

SpecCli == InitCli /\ [][NextCli]_vars


(***************************************************************************)
(* The project directory as LibraryExtractor and BuildCleaner see it.  A   *)
(* path is the sequence of its components below the project directory; a   *)
(* filesystem is the set of its files and the set of its directories.      *)
(***************************************************************************)
\* str.endswith(suffix): what the glob pattern '*<suffix>' matches
EndsWith(s, suffix) ==
    Len(s) >= Len(suffix) /\ SubSeq(s, Len(s) - Len(suffix) + 1, Len(s)) = suffix

\* sub in s
Contains(s, sub) ==
    \E i \in 1..(Len(s) + 1 - Len(sub)) : SubSeq(s, i, i + Len(sub) - 1) = sub

UpperCase == <<"A", "B", "C", "D", "E", "F", "G", "H", "I", "J", "K", "L", "M",
               "N", "O", "P", "Q", "R", "S", "T", "U", "V", "W", "X", "Y", "Z">>
LowerCase == <<"a", "b", "c", "d", "e", "f", "g", "h", "i", "j", "k", "l", "m",
               "n", "o", "p", "q", "r", "s", "t", "u", "v", "w", "x", "y", "z">>

\* str.lower()
RECURSIVE Lower(_)
Lower(s) ==
    IF s = "" THEN ""
    ELSE LET c == SubSeq(s, 1, 1)
             l == IF \E i \in 1..Len(UpperCase) : UpperCase[i] = c
                  THEN LowerCase[CHOOSE i \in 1..Len(UpperCase) : UpperCase[i] = c]
                  ELSE c
         IN  l \o Lower(SubSeq(s, 2, Len(s)))

\* str.replace(old, ""): every occurrence of old is taken out, left to right
RECURSIVE Remove(_, _)
Remove(s, old) ==
    IF Len(s) < Len(old) \/ old = "" THEN s
    ELSE IF SubSeq(s, 1, Len(old)) = old
    THEN Remove(SubSeq(s, Len(old) + 1, Len(s)), old)
    ELSE SubSeq(s, 1, 1) \o Remove(SubSeq(s, 2, Len(s)), old)

\* Path.name and Path.parent
Name(path) == path[Len(path)]
Parent(path) == SubSeq(path, 1, Len(path) - 1)

\* path is dir or lies below it
Under(path, dir) == Len(path) >= Len(dir) /\ SubSeq(path, 1, Len(dir)) = dir

\* Path.exists(), Path.is_file(), Path.is_dir()
Exists(f, path) == path \in f.files \cup f.dirs
IsFile(f, path) == path \in f.files
IsDir(f, path) == path \in f.dirs

\* Path.iterdir(): the entries of a directory
IterDir(f, dir) == {path \in f.files \cup f.dirs : Len(path) = Len(dir) + 1 /\ Under(path, dir)}

\* Path.unlink() of a file and shutil.rmtree of a directory
Unlink(f, path) == [f EXCEPT !.files = @ \ {path}]
RmTree(f, dir) == [files |-> {path \in f.files : ~Under(path, dir)},
                   dirs  |-> {path \in f.dirs : ~Under(path, dir)}]

\* a file appears at path (shutil.copy2 lands there, or a rename or move)
PutFile(f, path) == [f EXCEPT !.files = @ \cup {path}]

(***************************************************************************)
(* LibraryExtractor                                                        *)
(***************************************************************************)
LibExtensions == <<".a", ".so", ".dylib", ".dll", ".lib">>
Excludes == {"cmake", "test", "example", "benchmark", "obj.", "pdb"}

\* the filter of find_library_files on the name of what rglob found
KeepsLibrary(name) ==
    /\ Contains(Lower(name), "highs") \/ Contains(name, "HiGHS")
    /\ ~\E exclude \in Excludes : Contains(Lower(name), exclude)

\* build_dir.rglob('*' + lib_ext): every entry below build_dir whose name
\* ends in lib_ext
RGlob(f, build_dir, lib_ext) ==
    {path \in f.files \cup f.dirs :
        Len(path) > Len(build_dir) /\ Under(path, build_dir) /\ EndsWith(Name(path), lib_ext)}

ExtIndex(path) ==
    CHOOSE i \in 1..Len(LibExtensions) : EndsWith(Name(path), LibExtensions[i])

\* mutant of find_library_files: the names are not filtered
find_library_files_unfiltered(f, build_dir) ==
    LET found == UNION {RGlob(f, build_dir, LibExtensions[i]) : i \in 1..Len(LibExtensions)}
    IN  {l \in [1..Cardinality(found) -> found] :
            \A i, j \in 1..Len(l) :
                i < j => (l[i] # l[j] /\ ExtIndex(l[i]) <= ExtIndex(l[j]))}

\* LibraryExtractor.find_library_files: the lists it can return.  The
\* extensions are searched in list order; the order in which rglob yields the
\* entries of one extension is the directory order, which is not determined.
find_library_files(f, build_dir) ==
    LET found == UNION {RGlob(f, build_dir, LibExtensions[i]) : i \in 1..Len(LibExtensions)}
        filtered_libs == {path \in found : KeepsLibrary(Name(path))}
    IN  {l \in [1..Cardinality(filtered_libs) -> filtered_libs] :
            \A i, j \in 1..Len(l) :
                i < j => (l[i] # l[j] /\ ExtIndex(l[i]) <= ExtIndex(l[j]))}

\* potential_paths of extract_libraries
PotentialPaths(platform) ==
    << <<"build", platform>>, <<"build", platform, "Release">>,
       <<"build", platform, "Debug">> >>

TempPrefix(platform) == "temp_" \o platform \o "_"

\* mutant of TempPath: the staged copy is put into build_dir itself
TempPathInBuildDir(build_dir, platform, lib_file) ==
    Append(build_dir, TempPrefix(platform) \o Name(lib_file))

\* temp_path = build_dir.parent / f"temp_{platform}_{lib_file.name}"
TempPath(build_dir, platform, lib_file) ==
    Append(Parent(build_dir), TempPrefix(platform) \o Name(lib_file))

\* final_path = build_dir / temp_lib.name.replace(f"temp_{platform}_", "")
FinalPath(build_dir, platform, temp_lib) ==
    Append(build_dir, Remove(Name(temp_lib), TempPrefix(platform)))

\* the version token of the platform-specific renaming
VersionToken == "1.11"

\* mutant of KeepMainLib: without a file that has the token, any file is main_lib
KeepMainLibAnyFile(f, build_dir, final_name) ==
    {PutFile(Unlink(f, main_lib), Append(build_dir, final_name)) :
        main_lib \in {item \in IterDir(f, build_dir) : IsFile(f, item)}}

\* mutant of KeepMainLib: main_lib is renamed and the other files stay
KeepMainLibRenameOnly(f, build_dir, final_name) ==
    LET with_token == {item \in IterDir(f, build_dir) :
                          IsFile(f, item) /\ Contains(Name(item), "1.11")}
    IN  IF with_token = {} THEN {f}
        ELSE {PutFile(Unlink(f, main_lib), Append(build_dir, final_name)) :
                 main_lib \in with_token}

\* the "linux" and "macos" blocks: the filesystems they can leave.  main_lib
\* is the first file iterdir yields with the token in its name; every other
\* file of build_dir is unlinked and main_lib renamed to final_name.
KeepMainLib(f, build_dir, final_name) ==
    LET with_token == {item \in IterDir(f, build_dir) :
                          IsFile(f, item) /\ Contains(Name(item), VersionToken)}
        Others(main_lib) == {item \in IterDir(f, build_dir) :
                                IsFile(f, item) /\ item # main_lib}
    IN  IF with_token = {} THEN {f}
        ELSE {PutFile(Unlink([f EXCEPT !.files = @ \ Others(main_lib)], main_lib),
                      Append(build_dir, final_name)) : main_lib \in with_token}

\* lines 94-129: "linux" in platform, then "macos" in platform
PostProcess(f, build_dir, platform) ==
    LET after_linux == IF Contains(platform, "linux")
                       THEN KeepMainLib(f, build_dir, "libhighs.so")
                       ELSE {f}
    IN  IF Contains(platform, "macos")
        THEN UNION {KeepMainLib(g, build_dir, "libhighs.dylib") : g \in after_linux}
        ELSE after_linux

\* extract_libraries returns
ExReturn(r) ==
    /\ ex' = [ex EXCEPT !.pc = "returned"]
    /\ fs_call' = [op |-> "extract", arg |-> ex.platform, ret |-> r]

\* extract_libraries, lines 42-65: the build directory and the library files
ExFind ==
    /\ ex.pc = "start"
    /\ LET potential_paths == PotentialPaths(ex.platform)
           found == {i \in 1..Len(potential_paths) : Exists(fs, potential_paths[i])}
       IN  IF found = {}
           THEN ExReturn("False")
           ELSE LET build_dir == potential_paths[CHOOSE i \in found : \A j \in found : i <= j]
                IN  \E lib_files \in find_library_files(fs, build_dir) :
                      IF lib_files = <<>>
                      THEN ExReturn("False")
                      ELSE /\ ex' = [ex EXCEPT !.pc = "stage", !.build_dir = build_dir,
                                               !.lib_files = lib_files]
                           /\ UNCHANGED fs_call
    /\ UNCHANGED <<fs, cfgVars, dispVars, orchVars, cliVars, cmdVars>>

\* lines 69-77: one round of the staging loop.  shutil.copy2 may raise (it
\* does on a directory); the function then returns False where it stands
ExStage ==
    /\ ex.pc = "stage"
    /\ LET lib_file == ex.lib_files[Len(ex.temp_libs) + 1]
           temp_path == TempPath(ex.build_dir, ex.platform, lib_file)
       IN  \E copied \in BOOLEAN :
             IF copied /\ IsFile(fs, lib_file)
             THEN /\ fs' = PutFile(fs, temp_path)
                  /\ ex' = [ex EXCEPT !.temp_libs = Append(@, temp_path),
                                      !.pc = IF Len(ex.temp_libs) + 1 = Len(ex.lib_files)
                                             THEN "clear" ELSE "stage"]
                  /\ UNCHANGED fs_call
             ELSE /\ ExReturn("False")
                  /\ UNCHANGED fs
    /\ UNCHANGED <<cfgVars, dispVars, orchVars, cliVars, cmdVars>>

\* lines 82-86: one round of the loop that empties build_dir; unlink and
\* rmtree may raise
ExClear ==
    /\ ex.pc = "clear"
    /\ \E item \in IterDir(fs, ex.build_dir), removed \in BOOLEAN :
         IF removed
         THEN /\ fs' = IF IsFile(fs, item) THEN Unlink(fs, item) ELSE RmTree(fs, item)
              /\ ex' = [ex EXCEPT !.pc = IF IterDir(fs, ex.build_dir) = {item}
                                         THEN "move" ELSE "clear"]
         ELSE /\ ex' = [ex EXCEPT !.pc = "except"]
              /\ UNCHANGED fs
    /\ UNCHANGED <<fs_call, cfgVars, dispVars, orchVars, cliVars, cmdVars>>

\* lines 89-92: one round of the loop that moves the staged copies back;
\* shutil.move raises when its source is gone
ExMove ==
    /\ ex.pc = "move"
    /\ LET temp_lib == ex.temp_libs[ex.moved + 1]
           final_path == FinalPath(ex.build_dir, ex.platform, temp_lib)
       IN  \E moved \in BOOLEAN :
             IF moved /\ IsFile(fs, temp_lib)
             THEN /\ fs' = PutFile(Unlink(fs, temp_lib), final_path)
                  /\ ex' = [ex EXCEPT !.moved = @ + 1,
                                      !.pc = IF ex.moved + 1 = Len(ex.temp_libs)
                                             THEN "post" ELSE "move"]
             ELSE /\ ex' = [ex EXCEPT !.pc = "except"]
                  /\ UNCHANGED fs
    /\ UNCHANGED <<fs_call, cfgVars, dispVars, orchVars, cliVars, cmdVars>>

\* lines 94-129 and 143: the platform-specific renaming, then return True;
\* its unlink and rename may raise
ExPost ==
    /\ ex.pc = "post"
    /\ \E g \in PostProcess(fs, ex.build_dir, ex.platform), raised \in BOOLEAN :
         IF raised /\ PostProcess(fs, ex.build_dir, ex.platform) # {fs}
         THEN /\ ex' = [ex EXCEPT !.pc = "except"]
              /\ UNCHANGED <<fs, fs_call>>
         ELSE /\ fs' = g
              /\ ExReturn("True")
    /\ UNCHANGED <<cfgVars, dispVars, orchVars, cliVars, cmdVars>>

\* lines 135-141: the handler unlinks the staged copies that still exist
ExExcept ==
    /\ ex.pc = "except"
    /\ fs' = [fs EXCEPT !.files = @ \ Range(ex.temp_libs)]
    /\ ExReturn("False")
    /\ UNCHANGED <<cfgVars, dispVars, orchVars, cliVars, cmdVars>>

\* what a build leaves below build/<platform> (paths relative to it)
BuildOutputs == {
    <<"lib", "libhighs.so">>,
    <<"lib", "libhighs.so.1.11.0">>,
    <<"lib", "libhighs.1.11.so">>,
    <<"lib", "libhighs.1.11.0.dylib">>,
    <<"lib", "libhighs.dylib">>,
    <<"lib", "libhighs.a">>,
    <<"Release", "lib", "libhighs.a">>,
    <<"lib", "libz.a">>,
    <<"lib", "cmake", "highs-config.cmake">>,
    <<"test", "libhighs_test.a">>,
    <<"examples", "libhighs_example.so">>,
    <<"bin", "highs">> }

ExtractPlatforms == {"linux-x64", "macos-arm64", "ios-arm64"}

\* the project directory with the given files in build/<platform>
ProjectWith(platform, outputs) ==
    LET files == {<<"build", platform>> \o o : o \in outputs}
    IN  [files |-> files,
         dirs  |-> ({<<"build">>, <<"build", platform>>} \cup
                    {SubSeq(path, 1, n) : path \in files, n \in 3..4}) \ files]

InitExtract ==
    /\ CfgIdle
    /\ DispIdle
    /\ OrchIdle
    /\ CliIdle
    /\ CmdIdle
    /\ \E platform \in ExtractPlatforms :
         /\ ex = [NoEx EXCEPT !.pc = "start", !.platform = platform]
         /\ fs \in {NoFs} \cup
                   {ProjectWith(platform, outputs) :
                        outputs \in {o \in SUBSET BuildOutputs : Cardinality(o) <= MaxFiles}}
    /\ fs_call = NoCall

NextExtract ==
    \/ ExFind
    \/ ExStage
    \/ ExClear
    \/ ExMove
    \/ ExPost
    \/ ExExcept

SpecExtract == InitExtract /\ [][NextExtract]_vars

(***************************************************************************)
(* BuildCleaner.cleanup_all.  A removal may raise (cleanup_all catches      *)
(* nothing); shutil.rmtree raises on a path that is a regular file.        *)
(***************************************************************************)
\* the components of a relative path written with '/'
RECURSIVE SplitPath(_)
SplitPath(s) ==
    IF ~Contains(s, "/") THEN <<s>>
    ELSE LET i == CHOOSE k \in 1..Len(s) :
                      SubSeq(s, k, k) = "/" /\ ~Contains(SubSeq(s, 1, k - 1), "/")
         IN  <<SubSeq(s, 1, i - 1)>> \o SplitPath(SubSeq(s, i + 1, Len(s)))

Done(f) == [fs |-> f, raised |-> FALSE]
Raised(f) == [fs |-> f, raised |-> TRUE]

\* mutant of RemoveArtifact: a directory is left where it is
RemoveArtifactFilesOnly(f, path, fails) ==
    IF ~Exists(f, path) THEN Done(f)
    ELSE IF fails THEN Raised(f)
    ELSE Done(Unlink(f, path))

\* lines 26-32: if path.exists(): unlink a file, rmtree anything else
RemoveArtifact(f, path, fails) ==
    IF ~Exists(f, path) THEN Done(f)
    ELSE IF fails THEN Raised(f)
    ELSE Done(IF IsFile(f, path) THEN Unlink(f, path) ELSE RmTree(f, path))

\* lines 36-38 and 46-48: if path.exists(): shutil.rmtree(path)
RemoveTree(f, path, fails) ==
    IF ~Exists(f, path) THEN Done(f)
    ELSE IF fails \/ IsFile(f, path) THEN Raised(f)
    ELSE Done(RmTree(f, path))

\* lines 41-48: the binaryDir of each configure preset, from the i-th on
RECURSIVE RemoveOldDirs(_, _, _, _)
RemoveOldDirs(f, binary_dirs, i, fails) ==
    IF i > Len(binary_dirs) THEN Done(f)
    ELSE LET binary_dir == binary_dirs[i]
             r == IF StartsWith(binary_dir, "${sourceDir}/build/")
                  THEN RemoveTree(f, SplitPath(Remove(binary_dir, "${sourceDir}/")), fails)
                  ELSE Done(f)
         IN  IF r.raised THEN r ELSE RemoveOldDirs(r.fs, binary_dirs, i + 1, fails)

\* the removals of cleanup_all, in order; the fail_at-th of them raises if
\* it has something to remove
CleanupSteps == 1..4

\* BuildCleaner.cleanup_all: [fs, raised]
cleanup_all(f, binary_dirs, fail_at) ==
    LET cache == RemoveArtifact(f, <<"CMakeCache.txt">>, fail_at = 1)
        files == IF cache.raised THEN cache
                 ELSE RemoveArtifact(cache.fs, <<"CMakeFiles">>, fail_at = 2)
        root  == IF files.raised THEN files
                 ELSE RemoveTree(files.fs, <<"build">>, fail_at = 3)
    IN  IF root.raised THEN root
        ELSE RemoveOldDirs(root.fs, binary_dirs, 1, fail_at = 4)

CleanupAll ==
    /\ fs_call.op = "cleanup_all"
    /\ Len(fs_call.ret) < MaxRuns
    /\ \E fail_at \in {0} \cup CleanupSteps :
         LET r == cleanup_all(fs, fs_call.arg, fail_at)
         IN  /\ fs' = r.fs
             /\ fs_call' = [fs_call EXCEPT
                               !.ret = Append(@, IF r.raised THEN "raise" ELSE "None")]
    /\ UNCHANGED <<ex, cfgVars, dispVars, orchVars, cliVars, cmdVars>>

Merge(a, b) == [files |-> a.files \cup b.files, dirs |-> a.dirs \cup b.dirs]

\* what the project directory may hold before a clean
SourceTree == [files |-> {<<"CMakeLists.txt">>}, dirs |-> {<<"src">>}]
CacheStates == {NoFs,
                [files |-> {<<"CMakeCache.txt">>}, dirs |-> {}],
                [files |-> {}, dirs |-> {<<"CMakeCache.txt">>}]}
CMakeFilesStates == {NoFs,
                     [files |-> {<<"CMakeFiles">>}, dirs |-> {}],
                     [files |-> {<<"CMakeFiles", "a.o">>}, dirs |-> {<<"CMakeFiles">>}]}
BuildEntries == {[files |-> {<<"build", "linux-x64", "libhighs.so">>},
                  dirs  |-> {<<"build", "linux-x64">>}],
                 [files |-> {}, dirs |-> {<<"build", "ios-xcframework">>}],
                 [files |-> {<<"build", "temp_linux-x64_libhighs.a">>}, dirs |-> {}]}
RECURSIVE MergeAll(_)
MergeAll(S) == IF S = {} THEN NoFs
               ELSE LET a == CHOOSE a \in S : TRUE IN Merge(a, MergeAll(S \ {a}))
BuildStates == {NoFs, [files |-> {<<"build">>}, dirs |-> {}]} \cup
               {Merge([files |-> {}, dirs |-> {<<"build">>}], MergeAll(S)) :
                    S \in SUBSET BuildEntries}
OutStates == {NoFs, [files |-> {}, dirs |-> {<<"out">>, <<"out", "linux-x64">>}]}

\* the binaryDir values of the configure presets the cleaner is given
BinaryDirLists == {<<>>, <<"">>, <<"${sourceDir}/build/linux-x64">>,
                   <<"${sourceDir}/out/linux-x64", "${sourceDir}/build/linux-x64">>}

InitClean ==
    /\ CfgIdle
    /\ DispIdle
    /\ OrchIdle
    /\ CliIdle
    /\ CmdIdle
    /\ ex = NoEx
    /\ \E c \in CacheStates, m \in CMakeFilesStates, b \in BuildStates, o \in OutStates :
         fs = MergeAll({SourceTree, c, m, b, o})
    /\ \E binary_dirs \in BinaryDirLists :
         fs_call = [op |-> "cleanup_all", arg |-> binary_dirs, ret |-> <<>>]

NextClean == CleanupAll

SpecClean == InitClean /\ [][NextClean]_vars

(***************************************************************************)
(* The command lines the builder strategies hand to CommandRunner.run      *)
(***************************************************************************)
\* the "generator" of a configure preset ("" when the preset names none)
Generators == {"Ninja", "Unix Makefiles", "Ninja Multi-Config", "Xcode",
               "Visual Studio 17 2022", ""}

\* the build_config values the command line lets through (--config choices)
BuildConfigs == {"Release", "Debug"}

ConfigureBase(name) == <<"cmake", "--preset", name>>
BuildBase(name) == <<"cmake", "--build", "--preset", name>>

\* StandardPlatformBuilder.configure: configure_args
StandardConfigureArgs(name, gen, config) ==
    IF Contains(Lower(gen), "ninja") /\ config # "Release"
    THEN Append(ConfigureBase(name), "-DCMAKE_BUILD_TYPE=" \o config)
    ELSE ConfigureBase(name)

\* AndroidPlatformBuilder.configure: configure_args
AndroidConfigureArgs(name, gen, config) ==
    IF config # "Release"
    THEN Append(ConfigureBase(name), "-DCMAKE_BUILD_TYPE=" \o config)
    ELSE ConfigureBase(name)

\* iOSPlatformBuilder.configure
IosConfigureArgs(name, gen, config) == ConfigureBase(name)

\* StandardPlatformBuilder.build
StandardBuildArgs(name, gen, config) ==
    IF Contains(Lower(gen), "visual studio") \/ Contains(Lower(gen), "xcode")
    THEN BuildBase(name) \o <<"--config", config>>
    ELSE BuildBase(name)

\* AndroidPlatformBuilder.build
AndroidBuildArgs(name, gen, config) == BuildBase(name)

\* iOSPlatformBuilder.build
IosBuildArgs(name, gen, config) == BuildBase(name) \o <<"--config", config>>

\* the command builder.configure runs; none when the Android strategy
\* finds no NDK path
configure_args(b, name, gen, config) ==
    CASE b = "Standard" -> StandardConfigureArgs(name, gen, config)
      [] b = "Android"  -> IF Truthy(android_ndk_path)
                           THEN AndroidConfigureArgs(name, gen, config) ELSE <<>>
      [] b = "iOS"      -> IosConfigureArgs(name, gen, config)

\* the command builder.build runs
build_args(b, name, gen, config) ==
    CASE b = "Standard" -> StandardBuildArgs(name, gen, config)
      [] b = "Android"  -> IF Truthy(android_ndk_path)
                           THEN AndroidBuildArgs(name, gen, config) ELSE <<>>
      [] b = "iOS"      -> IosBuildArgs(name, gen, config)

\* ConfigManager.get_android_env: the dict it returns, or the ValueError
get_android_env ==
    IF ~Truthy(android_ndk_path)
    THEN [raised |-> TRUE, env |-> <<>>]
    ELSE [raised |-> FALSE,
          env |-> [k \in {"ANDROID_NDK_ROOT", "ANDROID_NDK_HOME"} |-> android_ndk_path]]

\* os.environ of the build script: it may name an NDK of its own
OsEnvirons ==
    {[k \in {"PATH"} |-> "/usr/bin"],
     [k \in {"PATH", "ANDROID_NDK_ROOT", "ANDROID_NDK_HOME"} |->
         IF k = "PATH" THEN "/usr/bin" ELSE "/old/ndk"]}

\* mutant of full_env: what os.environ names already is kept
full_env_keeps_environ(environ, env) ==
    [k \in DOMAIN environ \cup DOMAIN env |->
        IF k \in DOMAIN environ THEN environ[k] ELSE env[k]]

\* CommandRunner.run: full_env = os.environ.copy(); full_env.update(env)
full_env(environ, env) ==
    [k \in DOMAIN environ \cup DOMAIN env |->
        IF k \in DOMAIN env THEN env[k] ELSE environ[k]]

\* the env argument the strategy gives runner.run (Standard and iOS give none)
run_env(b) == IF b = "Android" THEN get_android_env.env ELSE <<>>

\* what runner.run was given and what the strategy returned; no process is
\* started when the strategy returns before it calls runner.run
Ran(kind, argv, b, environ, r) ==
    [kind |-> kind, argv |-> argv,
     env  |-> IF r.ran THEN full_env(environ, run_env(b)) ELSE <<>>,
     ran  |-> r.ran, ret |-> r.ret]

\* builder.configure(platform) of the strategy that handles the preset
ConfigureCommand ==
    /\ command.kind = "none"
    /\ builder' = get_builder_for_preset(Builders, preset_name)
    /\ \E outcome \in RunOutcomes, environ \in OsEnvirons :
         command' = Ran("configure",
                        configure_args(builder', preset_name, generator, build_config),
                        builder', environ, configure(builder', outcome))
    /\ UNCHANGED <<preset_name, generator, build_config>>
    /\ UNCHANGED <<cfgVars, orchVars, cliVars, fsVars>>

\* builder.build(platform)
BuildCommand ==
    /\ command.kind = "configure"
    /\ \E outcome \in RunOutcomes, environ \in OsEnvirons :
         command' = Ran("build",
                        build_args(builder, preset_name, generator, build_config),
                        builder, environ, build(builder, outcome))
    /\ UNCHANGED <<preset_name, builder, generator, build_config>>
    /\ UNCHANGED <<cfgVars, orchVars, cliVars, fsVars>>

InitCommand ==
    /\ env_file \in OrchEnvFiles /\ ndk_mem = None /\ cfg_call = NoCall
    /\ presets = Presets
    /\ preset_name \in BatchNames /\ builder = "unset"
    /\ OrchIdle
    /\ CliIdle
    /\ FsIdle
    /\ generator \in Generators
    /\ build_config \in BuildConfigs
    /\ command = NoCommand

NextCommand ==
    \/ ConfigureCommand
    \/ BuildCommand

SpecCommand == InitCommand /\ [][NextCommand]_vars

(***************************************************************************)
(* build_ios_xcframework on the project directory: a build writes its      *)
(* outputs below build/<platform>, extract_libraries works on them and     *)
(* create_xcframework looks for the libraries where the builds put them.   *)
(***************************************************************************)
\* what the build of an iOS platform can leave below build/<platform>
IosOutputs ==
    {{}, {<<build_config, "lib", "libhighs.a">>},
         {<<build_config, "lib", "libhighs.a">>, <<"bin", "highs">>}}

\* builder.build writes its outputs when it succeeds
BuildAndWrite ==
    /\ BuildStep
    /\ IF calls'[Len(calls')].ret = "True"
       THEN \E outputs \in IosOutputs :
              fs' = Merge(fs, ProjectWith(platforms[idx], outputs))
       ELSE fs' = fs
    /\ UNCHANGED <<fs_call, ex, cfgVars, dispVars, cliVars, cmdVars>>

\* build_single_platform calls library_extractor.extract_libraries(platform)
ExtractBegin ==
    /\ pc = "extract"
    /\ ex.pc = "idle"
    /\ ex' = [NoEx EXCEPT !.pc = "start", !.platform = platforms[idx]]
    /\ UNCHANGED <<fs, fs_call, orchVars, cfgVars, dispVars, cliVars, cmdVars>>

\* extract_libraries has returned to build_single_platform
ExtractEnd ==
    /\ ex.pc = "returned"
    /\ ExtractStep(fs_call.ret = "True")
    /\ ex' = NoEx
    /\ UNCHANGED <<fs, fs_call, cfgVars, dispVars, cliVars, cmdVars>>

\* the libraries create_xcframework finds: path.exists() of each library path
LibrariesOnDisk ==
    {LibraryPath(IosPlatforms[i]) : i \in 1..Len(IosPlatforms)}
        \cap {l \in {LibraryPath(IosPlatforms[i]) : i \in 1..Len(IosPlatforms)} :
                 Exists(fs, SplitPath(l))}

\* build_ios_xcframework after the loop, create_xcframework reading the
\* project directory and making build/ios-xcframework
FinishIosOnDisk ==
    /\ FinishIosStep({LibrariesOnDisk})
    /\ fs' = IF xcf'.mkdir
             THEN [fs EXCEPT !.dirs = @ \cup {<<"build">>, <<"build", "ios-xcframework">>}]
             ELSE fs
    /\ UNCHANGED <<fs_call, ex, cfgVars, dispVars, cliVars, cmdVars>>

InitIos ==
    /\ CfgIdle
    /\ DispIdle
    /\ CliIdle
    /\ FsIdle
    /\ generator = "" /\ build_config \in BuildConfigs /\ command = NoCommand
    /\ op = "ios" /\ arg = NoArg
    /\ extract_libs \in BOOLEAN
    /\ platforms = <<>> /\ idx = 0 /\ pc = "entry" /\ results = <<>>
    /\ calls = <<>> /\ all_success = "unset" /\ ret = "unset"
    /\ build_dirs = {} /\ xcf = NoXcf

NextIos ==
    \/ StartIos
    \/ Configure
    \/ BuildAndWrite
    \/ ExtractBegin
    \/ ExFind
    \/ ExStage
    \/ ExClear
    \/ ExMove
    \/ ExPost
    \/ ExExcept
    \/ ExtractEnd
    \/ FinishIosOnDisk

SpecIos == InitIos /\ [][NextIos]_vars

(***************************************************************************)
(* Properties                                                              *)
(***************************************************************************)
\* the entry of the results dict for key k
ResultOf(k) == results[CHOOSE i \in 1..Len(results) : results[i].k = k].v

HasResult(k) == \E i \in 1..Len(results) : results[i].k = k

BuilderCall(c) == c.call \in {"configure", "build", "extract"}

\* C1: when build_multiple_platforms(L) returns, the keys of the result
\* mapping are exactly the platforms of L: each has an entry, none is
\* missing and no key occurs twice.
C1_ResultKeysEqualList ==
    (pc = "returned" /\ op = "multi" /\ ~arg.none) =>
        /\ Range(Keys(results)) = Range(arg.list)
        /\ \A i, j \in 1..Len(results) : results[i].k = results[j].k => i = j

C1_Witness ==
    /\ pc = "returned" /\ op = "multi" /\ ~arg.none
    /\ Len(arg.list) >= 2
    /\ \E i, j \in 1..Len(results) : results[i].v /\ ~results[j].v

\* C2: a build call for a platform directly follows a successful configure
\* of the same attempt, an extraction call directly follows a successful
\* build of it; after a configure or build that failed no further call is
\* made for that attempt, and its outcome in the results is failed.
C2_ExtractOnlyAfterConfigureAndBuild ==
    /\ \A k \in 1..Len(calls) :
         /\ calls[k].call = "build" =>
              /\ k > 1
              /\ calls[k-1].call = "configure"
              /\ calls[k-1].at = calls[k].at
              /\ calls[k-1].ret = "True"
         /\ calls[k].call = "extract" =>
              /\ k > 2
              /\ calls[k-1].call = "build"
              /\ calls[k-1].at = calls[k].at
              /\ calls[k-1].ret = "True"
              /\ calls[k-2].call = "configure"
              /\ calls[k-2].at = calls[k].at
              /\ calls[k-2].ret = "True"
    /\ \A k, m \in 1..Len(calls) :
         (k < m /\ calls[k].call \in {"configure", "build"} /\ calls[k].ret # "True")
            => ~(BuilderCall(calls[m]) /\ calls[m].at = calls[k].at)
    /\ \A k \in 1..Len(calls) :
         (calls[k].call \in {"configure", "build"} /\ calls[k].ret = "False"
            /\ idx = calls[k].at + 1)
            => (HasResult(calls[k].platform) /\ ~ResultOf(calls[k].platform))

C2_Witness ==
    \E k, m \in 1..Len(calls) :
        /\ k < m
        /\ calls[k].call = "configure" /\ calls[k].ret = "False"
        /\ calls[m].call = "extract"
        /\ pc = "returned"

\* C3: the platforms are attempted in list order, and when the batch has
\* ended every platform of the list has an outcome in the result mapping,
\* whatever happened to the platforms before it.
C3_EveryPlatformReachesOutcome ==
    /\ \A k, m \in 1..Len(calls) :
         (k < m /\ BuilderCall(calls[k]) /\ BuilderCall(calls[m]))
            => calls[k].at <= calls[m].at
    /\ (pc \in {"returned", "crashed"} /\ platforms # <<>>) =>
         \A i \in 1..Len(platforms) : HasResult(platforms[i])

\* C4: the step that runs extract_libraries records the platform as
\* succeeded, whether the extraction returned true or false.
C4_ExtractionNeverFailsBuild ==
    [][pc = "extract" =>
         \E i \in 1..Len(results') :
             results'[i].k = platforms[idx] /\ results'[i].v]_vars

C4_Witness ==
    \E k \in 1..Len(calls) :
        /\ calls[k].call = "extract" /\ calls[k].ret = "False"
        /\ idx = calls[k].at + 1
        /\ HasResult(calls[k].platform) /\ ResultOf(calls[k].platform)

\* C5: the success of an iOS or Android batch is computed only once every
\* platform of the list has its outcome, it is the conjunction of the
\* outcomes in the result mapping, and the entry point returns failure
\* when it is false (build_android_all returns it as it is).
C5_BatchSuccessIsConjunction ==
    /\ all_success # "unset" =>
         /\ idx = Len(platforms) + 1
         /\ \A i \in 1..Len(platforms) : HasResult(platforms[i])
         /\ (all_success = "True") = (\A i \in 1..Len(results) : results[i].v)
    /\ (pc = "returned" /\ op \in {"ios", "android"} /\ platforms # <<>>) =>
         /\ all_success # "unset"
         /\ (op = "android" => ret = all_success)
         /\ (all_success = "False" => ret = "False")

C5_Witness ==
    /\ pc = "returned" /\ op = "android"
    /\ all_success = "False" /\ ret = "False"
    /\ \E i \in 1..Len(results) : results[i].v

\* C6: a set_android_ndk_path call with a path that does not exist or has
\* no build/cmake/android.toolchain.cmake returns False and changes neither
\* the in-memory path nor the .env record.
C6_InvalidNdkPathChangesNothing ==
    [][(/\ cfg_call'.op = "set"
        /\ (~PathExists(cfg_call'.arg) \/ ~HasToolchainFile(cfg_call'.arg)))
       => (/\ cfg_call'.ret = "False"
           /\ ndk_mem' = ndk_mem
           /\ env_file' = env_file)]_vars

C6_Witness ==
    /\ cfg_call.op = "set" /\ cfg_call.arg = "/opt/empty" /\ cfg_call.ret = "False"
    /\ ndk_mem = "/opt/ndk2"
    /\ load_android_ndk_path(env_file) = "/opt/ndk2"

ValidNdk(p) == PathExists(p) /\ HasToolchainFile(p)

\* C7: a toolchain path that ConfigManager reports (the android_ndk_path
\* property is not None) exists and contains the toolchain file.
C7_ReportedNdkPathIsValid ==
    /\ (cfg_call.op = "get" /\ cfg_call.ret # None) => ValidNdk(cfg_call.ret)
    /\ ndk_mem # None => ValidNdk(ndk_mem)

\* C8: exactly one of the three strategies can handle a name, and
\* get_builder_for_preset returns it: Android for 'android-' names, iOS for
\* 'ios-' names, Standard for every other name, never None.
C8_ExactlyOneBuilder ==
    builder # "unset" =>
        /\ Cardinality({i \in 1..Len(Builders) : can_handle(Builders[i], preset_name)}) = 1
        /\ builder # None
        /\ can_handle(builder, preset_name)
        /\ builder = (IF StartsWith(preset_name, "android-") THEN "Android"
                      ELSE IF StartsWith(preset_name, "ios-") THEN "iOS"
                      ELSE "Standard")

C8_Witness ==
    /\ preset_name = "ios-arm64"
    /\ builder = "iOS"

\* C9: a platform argument list that holds a macro token (all, ios,
\* android) and any other token ends the process with code 1, and no
\* configure, build, clean or extraction has been attempted.
C9_MacroMixRejected ==
    (/\ cli_pc = "exited"
     /\ Len(args.platforms) > 1
     /\ \E i \in 1..Len(args.platforms) : IsMacro(args.platforms[i]))
    => (exit_code = <<1>> /\ activity = <<>>)

C9_Witness ==
    /\ cli_pc = "exited"
    /\ args.platforms = <<"all", "ios-arm64">>
    /\ args.ndk_path = "/opt/ndk"
    /\ exit_code = <<1>>

\* C10: explicit platform names (no macro token) of which at least one is
\* not a known platform end the process with code 1, and no configure or
\* build has been attempted for any of the names.
C10_UnknownNameRejected ==
    (/\ cli_pc = "exited"
     /\ args.platforms # <<>>
     /\ \A i \in 1..Len(args.platforms) : ~IsMacro(args.platforms[i])
     /\ \E i \in 1..Len(args.platforms) : args.platforms[i] \notin Range(presets))
    => (exit_code = <<1>> /\ activity = <<>>)

C10_Witness ==
    /\ cli_pc = "exited"
    /\ args.platforms = <<"linux-x64", "bogus">>
    /\ args.ndk_path = "/opt/ndk"
    /\ exit_code = <<1>>

\* the platform list of the command line, with the default of main
CliPlatforms == IF args.platforms = <<>> THEN <<"all">> ELSE args.platforms

\* the platforms a command line asks to be built
Requested ==
    IF CliPlatforms = <<"all">> THEN LegacyAllPlatforms
    ELSE IF CliPlatforms = <<"ios">> THEN IosPlatforms
    ELSE IF CliPlatforms = <<"android">> THEN AndroidPlatforms
    ELSE CliPlatforms

Attempted(p) ==
    \E k \in 1..Len(activity) : activity[k].call = "configure" /\ activity[k].platform = p

\* the outcome of platform p, as the results dict holds it: that of the last
\* attempt made for p (a name listed twice is attempted twice and the later
\* outcome replaces the earlier one)
Succeeded(p) ==
    /\ Attempted(p)
    /\ LET k == CHOOSE i \in 1..Len(activity) :
                    /\ activity[i].call = "configure" /\ activity[i].platform = p
                    /\ \A j \in (i + 1)..Len(activity) :
                           ~(activity[j].call = "configure" /\ activity[j].platform = p)
       IN  /\ activity[k].ret = "True"
           /\ k < Len(activity)
           /\ activity[k + 1] = Act("build", p, "True")

Assembled(r) ==
    \E k \in 1..Len(activity) : activity[k] = Act("create_xcframework", "ios", r)

\* every requested platform was configured and built with success, and for
\* 'ios' the bundle was assembled
FullSuccess ==
    /\ \A i \in 1..Len(Requested) : Succeeded(Requested[i])
    /\ CliPlatforms = <<"ios">> => Assembled("True")

AndroidRequested ==
    \E i \in 1..Len(CliPlatforms) :
        CliPlatforms[i] = "android" \/ IsAndroid(CliPlatforms[i])

\* C11: when the build command has ended its exit code is 0 or 1; when it
\* asked for at least one platform the code is 0 exactly when every
\* requested platform was built with success; it is 1 when
\* the build of a requested platform failed, when Android is requested (macro or
\* 'android-' name, without 'all') and no toolchain path is set, and when a
\* name of an explicit list is not a known platform.
C11_ExitCodeContract ==
    cli_pc = "exited" =>
        /\ exit_code \in {<<0>>, <<1>>}
        /\ Requested # <<>> => ((exit_code = <<0>>) <=> FullSuccess)
        /\ (\E i \in 1..Len(Requested) :
               Attempted(Requested[i]) /\ ~Succeeded(Requested[i])) => exit_code = <<1>>
        /\ Assembled("False") => exit_code = <<1>>
        /\ (AndroidRequested /\ "all" \notin Range(CliPlatforms) /\ ~Truthy(ndk_mem))
               => exit_code = <<1>>
        /\ (\E i \in 1..Len(CliPlatforms) :
               ~IsMacro(CliPlatforms[i]) /\ NotAvailable(CliPlatforms[i]))
               => exit_code = <<1>>

C11_Witness ==
    /\ cli_pc = "exited"
    /\ exit_code = <<0>>
    /\ args.platforms = <<"linux-x64", "android-arm64">>
    /\ \E k \in 1..Len(activity) : activity[k] = Act("extract", "linux-x64", "False")

\* C12: 'build android' with no toolchain path from the --ndk-path flag and
\* none in the persisted record ends with code 1 with no platform attempted
\* and nothing cleaned; with a path from either of the two it goes on to
\* the Android platforms, starting with android-arm64, and attempts all
\* four of them unless an attempt raises.
C12_AndroidMacroNeedsNdkPath ==
    (cli_pc = "exited" /\ args.platforms = <<"android">>) =>
        /\ (~Truthy(args.ndk_path) /\ ~Truthy(load_android_ndk_path(env_file)))
              => (exit_code = <<1>> /\ activity = <<>>)
        /\ (/\ Truthy(args.ndk_path) => ~RejectsNdkPath(args.ndk_path)
            /\ Truthy(args.ndk_path) \/ Truthy(load_android_ndk_path(env_file)))
              => /\ activity # <<>>
                 /\ activity[1].call = "configure"
                 /\ activity[1].platform = AndroidPlatforms[1]
                 /\ (\A k \in 1..Len(activity) : activity[k].ret # "raise")
                       => \A i \in 1..Len(AndroidPlatforms) : Attempted(AndroidPlatforms[i])

\* C13: build_ios_xcframework first cleans the build directories of
\* ios-arm64 and ios-simulator-arm64 (a directory of theirs that exists later
\* was made by a configure of this run), then attempts these two platforms
\* and no other, and calls create_xcframework if and only if both were built
\* with success; when one of them failed create_xcframework is never called
\* and the macro returns False.
C13_IosMacroCleansBuildsAssembles ==
    (op = "ios" /\ pc # "entry") =>
        /\ platforms = <<"ios-arm64", "ios-simulator-arm64">>
        /\ Len(calls) >= 2
        /\ \A k \in 1..Len(calls) :
             /\ (k <= 2) = (calls[k].call = "clean")
             /\ k <= 2 => calls[k].platform = platforms[k]
             /\ BuilderCall(calls[k]) => calls[k].platform \in Range(platforms)
        /\ \A i \in 1..Len(platforms) :
             platforms[i] \in build_dirs =>
                 \E k \in 1..Len(calls) :
                     /\ calls[k].call = "configure" /\ calls[k].platform = platforms[i]
                     /\ calls[k].ret = "True"
        /\ xcf.called =>
             \A i \in 1..Len(platforms) : HasResult(platforms[i]) /\ ResultOf(platforms[i])
        /\ pc = "returned" =>
             /\ \A i \in 1..Len(platforms) : HasResult(platforms[i])
             /\ xcf.called = All(results)
             /\ ~All(results) => ret = "False"
        /\ pc = "crashed" => ~xcf.called

C13_Witness ==
    /\ op = "ios" /\ pc = "returned"
    /\ xcf.called /\ xcf.invoked /\ ret = "True"
    /\ {"ios-arm64", "ios-simulator-arm64", "linux-x64"} \subseteq build_dirs

\* the library paths create_xcframework expects and those of them not there
ExpectedLibs == {LibraryPath(IosPlatforms[i]) : i \in 1..Len(IosPlatforms)}
AbsentLibs == ExpectedLibs \ xcf.existing

\* every missing path is reported, once, and the call fails without running
\* the external tool
ReportsAllMissing ==
    /\ Range(xcf.reported) = AbsentLibs
    /\ Len(xcf.reported) = Cardinality(AbsentLibs)
    /\ xcf.ret = "False"
    /\ ~xcf.invoked

\* C15 as stated: whenever one or more of the expected library paths are
\* missing, create_xcframework reports all of them, returns failure and
\* never invokes the external bundling tool.
C15_MissingLibsAllReported ==
    (xcf.called /\ AbsentLibs # {}) => ReportsAllMissing

\* C15 amended: on macOS the statement holds and the external tool is run
\* only when no path is missing; on any other system create_xcframework
\* returns failure before it looks at the paths: it reports no missing path
\* and does not run the tool.
C15_MissingLibsAllReportedOnMacOS ==
    xcf.called =>
        /\ (xcf.system = "Darwin" /\ AbsentLibs # {}) => ReportsAllMissing
        /\ xcf.invoked => (xcf.system = "Darwin" /\ AbsentLibs = {})
        /\ xcf.system # "Darwin" =>
              (xcf.reported = <<>> /\ xcf.ret = "False" /\ ~xcf.invoked)

C15_Witness ==
    /\ xcf.called /\ xcf.system = "Darwin"
    /\ xcf.existing = {}
    /\ Len(xcf.reported) = 2
    /\ xcf.ret = "False"

IsConfigureCall(c) == c.call = "configure"

\* position of a known platform in the preset order
PresetIndex(p) == CHOOSE i \in 1..Len(Presets) : Presets[i] = p

RetainedWithToken ==
    {i \in 1..Len(ex.lib_files) : Contains(Name(ex.lib_files[i]), "1.11")}

\* build_dir holds the one file of the given name and nothing else
HoldsOnly(name) ==
    /\ {path \in fs.files : Under(path, ex.build_dir)} = {Append(ex.build_dir, name)}
    /\ \A d \in fs.dirs : Under(d, ex.build_dir) => d = ex.build_dir

ExtractedWithOneVersioned ==
    /\ ex.pc = "returned" /\ fs_call.ret = "True"
    /\ Cardinality(RetainedWithToken) = 1

\* C16: when extract_libraries has returned True for a platform whose name
\* contains 'linux' and exactly one of the retained library files had '1.11'
\* in its name, the build directory holds one file, named libhighs.so, and
\* nothing else; for a name that contains 'macos' that file is named
\* libhighs.dylib.
C16_SingleCanonicalLibrary ==
    ExtractedWithOneVersioned =>
        /\ Contains(ex.platform, "linux") => HoldsOnly("libhighs.so")
        /\ Contains(ex.platform, "macos") => HoldsOnly("libhighs.dylib")

C16_Witness ==
    /\ ExtractedWithOneVersioned
    /\ ex.platform = "macos-arm64"
    /\ Len(ex.lib_files) = 3
    /\ HoldsOnly("libhighs.dylib")

\* the build artifacts cleanup_all is there to remove
Artifacts == {<<"CMakeCache.txt">>, <<"CMakeFiles">>, <<"build">>}
NoArtifacts(f) == \A path \in Artifacts : ~Exists(f, path)

\* C17: once cleanup_all has run to its end, CMakeCache.txt, CMakeFiles and
\* build/ do not exist; a run of cleanup_all that starts when none of them
\* exists raises nothing and leaves the filesystem as it was.
C17_CleanIsIdempotent ==
    /\ []((/\ fs_call.op = "cleanup_all"
           /\ fs_call.ret # <<>>
           /\ fs_call.ret[Len(fs_call.ret)] = "None") => NoArtifacts(fs))
    /\ [][(fs_call'.op = "cleanup_all" /\ fs_call' # fs_call /\ NoArtifacts(fs))
             => (fs' = fs /\ fs_call'.ret[Len(fs_call'.ret)] = "None")]_vars

C17_Witness ==
    /\ fs_call.op = "cleanup_all"
    /\ fs_call.ret = <<"None", "None">>
    /\ NoArtifacts(fs)
    /\ <<"CMakeLists.txt">> \in fs.files
    /\ <<"out", "linux-x64">> \in fs.dirs

\* the key=value entries of a record, as a dict in file order
EntriesOf(file) == IF file.exists THEN ReadEnvVars(file.lines, 1, <<>>) ELSE <<>>

\* C18: a set_android_ndk_path call that returns True leaves a record in
\* which ANDROID_NDK_PATH holds the resolved path, in which every other
\* key=value entry of the record before the call is present with its value,
\* and from which _load_android_ndk_path returns the resolved path.
C18_SavePreservesOtherKeys ==
    [][(cfg_call'.op = "set" /\ cfg_call'.ret = "True") =>
          LET old == EntriesOf(env_file)
              new == EntriesOf(env_file')
              ndk_path == Resolve(cfg_call'.arg)
          IN  /\ env_file'.exists
              /\ \E j \in 1..Len(new) : new[j] = [k |-> "ANDROID_NDK_PATH", v |-> ndk_path]
              /\ \A i \in 1..Len(old) :
                   old[i].k # "ANDROID_NDK_PATH" => \E j \in 1..Len(new) : new[j] = old[i]
              /\ load_android_ndk_path(env_file') = ndk_path
              /\ ndk_mem' = ndk_path]_vars

C18_Witness ==
    /\ cfg_call = [op |-> "set", arg |-> "ndk-link", ret |-> "True"]
    /\ env_file.lines = <<"# HiGHS Build Configuration",
                          "# Android NDK path for cross-compilation",
                          "FOO=\"a=b\"",
                          "BAR=\" \"x\"",
                          "ANDROID_NDK_PATH=\"/opt/ndk\"">>

\* CMake's classification of the generators
SingleConfig == {"Ninja", "Unix Makefiles"}
MultiConfig == {"Ninja Multi-Config", "Xcode", "Visual Studio 17 2022"}

HasBuildTypeOverride ==
    \E i \in 1..Len(command.argv) : command.argv[i] = "-DCMAKE_BUILD_TYPE=" \o build_config

HasConfigFlag ==
    \E i \in 1..(Len(command.argv) - 1) :
        command.argv[i] = "--config" /\ command.argv[i + 1] = build_config

\* C19: the configure command of a preset carries -DCMAKE_BUILD_TYPE=<type>
\* exactly when the generator of the preset is single-configuration and the
\* build type is not Release, whichever strategy builds the command.
C19_BuildTypeOverrideAtConfigure ==
    (/\ command.kind = "configure" /\ command.argv # <<>>
     /\ generator \in SingleConfig \cup MultiConfig)
    => (HasBuildTypeOverride = (generator \in SingleConfig /\ build_config # "Release"))

\* C20: the build command of a preset carries --config <type> exactly when
\* the generator of the preset is multi-configuration, whichever strategy
\* builds the command.
C20_ConfigFlagAtBuild ==
    (/\ command.kind = "build" /\ command.argv # <<>>
     /\ generator \in SingleConfig \cup MultiConfig)
    => (HasConfigFlag = (generator \in MultiConfig))

\* the Android strategy has run configure or build
AndroidRan == builder = "Android" /\ command.kind \in {"configure", "build"}

\* C21: without a known NDK path the Android strategy's configure and build
\* return False and start no process; with one, the process they start has
\* that path under both ANDROID_NDK_ROOT and ANDROID_NDK_HOME.
C21_AndroidNeedsNdkAndExportsIt ==
    AndroidRan =>
        IF ~Truthy(android_ndk_path)
        THEN command.ret = "False" /\ ~command.ran /\ command.argv = <<>>
        ELSE /\ command.ran /\ command.argv # <<>>
             /\ {"ANDROID_NDK_ROOT", "ANDROID_NDK_HOME"} \subseteq DOMAIN command.env
             /\ command.env["ANDROID_NDK_ROOT"] = android_ndk_path
             /\ command.env["ANDROID_NDK_HOME"] = android_ndk_path

\* an Android build command ran with the NDK of the .env record although
\* os.environ named another one
C21_Witness ==
    /\ AndroidRan /\ command.kind = "build" /\ command.ran
    /\ android_ndk_path = "/opt/ndk"
    /\ command.env = [k \in {"PATH", "ANDROID_NDK_ROOT", "ANDROID_NDK_HOME"} |->
                         IF k = "PATH" THEN "/usr/bin" ELSE "/opt/ndk"]
(***************************************************************************)
(* Properties of extract_libraries (SpecExtract)                           *)
(***************************************************************************)
\* the build-output directory of the platform and what lies in it
OutputDir == <<"build", ex.platform>>
Inside(f) == {path \in f.files \cup f.dirs : Len(path) > Len(OutputDir) /\ Under(path, OutputDir)}

\* the staged copy of a retained file, and where it is moved back to
StagedCopy(lib_file) == Append(<<"build">>, "temp_" \o ex.platform \o "_" \o Name(lib_file))
MovedBack(lib_file) == Append(OutputDir, Name(lib_file))

Failed == ex.pc = "returned" /\ fs_call.ret = "False"
Extracted == ex.pc = "returned" /\ fs_call.ret = "True"

\* C22: when extract returns False after it began to stage, none of the
\* staged files temp_<platform>_<name> is left.
C22_NoStagedFileLeftOnFailure ==
    Failed => \A i \in 1..Len(ex.lib_files) : StagedCopy(ex.lib_files[i]) \notin fs.files

\* C23: while extract looks for the libraries and stages them, the content of
\* the build-output directory stays as it was, so a failed staging copy
\* leaves all of it and the staged copies lie outside it; a step that
\* deletes from it happens only when every retained file has been staged.
C23_OutputsKeptUntilAllStaged ==
    [][/\ ex.pc \in {"start", "stage"} => Inside(fs') = Inside(fs)
       /\ ~(Inside(fs) \subseteq Inside(fs')) =>
              /\ ex.pc \in {"clear", "post"}
              /\ Len(ex.temp_libs) = Len(ex.lib_files)
              /\ \A i \in 1..Len(ex.temp_libs) : ~Under(ex.temp_libs[i], OutputDir)]_vars

\* the second staging copy failed: the first staged copy exists and the
\* build-output directory still holds both libraries
C23_Witness ==
    /\ Failed /\ Len(ex.lib_files) = 2 /\ Len(ex.temp_libs) = 1
    /\ Range(ex.lib_files) \subseteq fs.files
    /\ ex.temp_libs[1] \in fs.files

\* C24: from the first staging copy on, and whatever extract returns, every
\* retained library file exists in the build-output directory (where it was
\* or where it is moved back to) or as its staged copy.
C24_RetainedFileAlwaysRecoverable ==
    ex.pc \in {"stage", "clear", "move", "post", "except"} \/ Failed =>
        \A i \in 1..Len(ex.lib_files) :
            \/ ex.lib_files[i] \in fs.files
            \/ MovedBack(ex.lib_files[i]) \in fs.files
            \/ StagedCopy(ex.lib_files[i]) \in fs.files

\* the library files find_library_files retains, by the rule of the
\* specification: a library extension and a HiGHS name without an excluded word
Retained(f) ==
    {path \in Inside(f) :
        /\ \E i \in 1..Len(LibExtensions) : EndsWith(Name(path), LibExtensions[i])
        /\ KeepsLibrary(Name(path))}

\* C26: when no candidate build-output directory exists, or no library file
\* is retained, extract returns False and the filesystem is as it was.
C26_NothingFoundNothingTouched ==
    [][(ex.pc = "start" /\ (OutputDir \notin fs.dirs \/ Retained(fs) = {}))
          => (ex'.pc = "returned" /\ fs_call'.ret = "False" /\ fs' = fs)]_vars

\* extract returned False on a build directory that holds a library of
\* another project only, and the directory is as it was
C26_Witness ==
    /\ Failed /\ ex.lib_files = <<>>
    /\ fs = ProjectWith(ex.platform, {<<"lib", "libz.a">>, <<"bin", "highs">>})

\* C29: on a platform named after linux or macos, when no retained file has
\* "1.11" in its name, the platform-specific step changes nothing: extract
\* returns True and the build-output directory holds exactly the retained
\* files under their names.
C29_NoVersionedFileNoRenaming ==
    [][(/\ ex.pc = "post"
        /\ Contains(ex.platform, "linux") \/ Contains(ex.platform, "macos")
        /\ \A i \in 1..Len(ex.lib_files) : ~Contains(Name(ex.lib_files[i]), "1.11"))
          => (/\ fs' = fs
              /\ ex'.pc = "returned" /\ fs_call'.ret = "True"
              /\ Inside(fs') = {MovedBack(ex.lib_files[i]) : i \in 1..Len(ex.lib_files)})]_vars

\* extract succeeded on linux-x64 with two unversioned libraries
C29_Witness ==
    /\ Extracted /\ ex.platform = "linux-x64"
    /\ Inside(fs) = {<<"build", "linux-x64", "libhighs.a">>,
                     <<"build", "linux-x64", "libhighs.so">>}

\* C30: distinct retained files have distinct staged and final paths, and a
\* successful extract on a platform without renaming leaves one file in the
\* build-output directory for each retained file.
C30_DistinctFilesDistinctPaths ==
    /\ \A i, j \in 1..Len(ex.lib_files) :
           i # j => /\ StagedCopy(ex.lib_files[i]) # StagedCopy(ex.lib_files[j])
                    /\ MovedBack(ex.lib_files[i]) # MovedBack(ex.lib_files[j])
    /\ (Extracted /\ ex.platform = "ios-arm64")
           => Cardinality(Inside(fs)) = Len(ex.lib_files)
\* C25: a tool that is not found is a failure outcome of its own and never
\* an exception that leaves the entry point: configure and build return
\* False for it and the batch goes on, and create_xcframework returns False
\* with a message that differs from the one of a nonzero exit.
C25_MissingToolIsHandledFailure ==
    /\ pc # "crashed"
    /\ \A i \in 1..Len(calls) :
           calls[i].call \in {"configure", "build"} => calls[i].ret \in {"True", "False"}
    /\ (xcf.called /\ xcf.invoked /\ xcf.outcome = "notfound")
           => /\ xcf.ret = "False"
              /\ xcf.logged # create_xcframework(IosPlatforms, xcf.system, xcf.existing,
                                                 "nonzero").logged
\* C28: when 'build all' finds no platform to build (every known platform is
\* filtered out), nothing is attempted and the process does not report
\* success: it ends with a nonzero code.
C28_EmptyBatchIsNotSuccess ==
    (/\ cli_pc = "exited"
     /\ args.platforms \in {<<>>, <<"all">>}
     /\ ~(Truthy(args.ndk_path) /\ RejectsNdkPath(args.ndk_path))
     /\ LegacyAllPlatforms = <<>>)
    => (activity = <<>> /\ exit_code # <<0>>)
\* the library of an iOS platform is where the build put it
LibraryFile(p) == <<"build", p, build_config, "lib", "libhighs.a">>
Produced(p) == LibraryFile(p) \in fs.files

\* C27: in the 'build ios' macro, with or without extraction, a library that
\* a build has put at build/<platform>/<config>/lib/libhighs.a stays there
\* through every later step, and create_xcframework does not report it
\* missing when it checks the library paths.
C27_ExtractionKeepsIosLibraries ==
    [][\A p \in {"ios-arm64", "ios-simulator-arm64"} :
          Produced(p) =>
              /\ LibraryFile(p) \in fs'.files
              /\ (xcf'.called /\ xcf'.system = "Darwin")
                     => \A i \in 1..Len(xcf'.reported) : xcf'.reported[i] # LibraryPath(p)]_vars

====
